---- MODULE Spec2Model ----
(***************************************************************************)
(* A model of the solar system simulator: planet.py (Planet), camera.py    *)
(* (Camera), renderer.py (OpenGLRenderer.load_texture) and main.py         *)
(* (SolarSystemSimulator and main).                                        *)
(*                                                                         *)
(* Numbers.  Every float of the program is a fixed-point integer with      *)
(* three decimals: 1.0 is 1000, an angle of 360 degrees is 360000, the     *)
(* rotation speed 2.0 is 2000.  Products of two such numbers are divided   *)
(* by 1000 (Mul).  Floating-point rounding is not modelled.                *)
(*                                                                         *)
(* Vectors.  sin, cos, atan2, asin and the vector norm are not computed:   *)
(* a camera position is kept as the term  o + d * dir(th, ph), where o is  *)
(* a vector, d a length and dir(th, ph) the unit vector                    *)
(* (cos ph sin th, sin ph, cos ph cos th) of _update_position_from_        *)
(* spherical.  Unit vectors obtained by normalising are kept as terms      *)
(* too.  Two terms that are equal denote equal vectors.                    *)
(***************************************************************************)
EXTENDS Integers, Sequences, FiniteSets, TLC

VARIABLES
    pc,           \* position of main(): "main", "input", "update", "render", "flip", "cleanup", "exited"
    running,      \* SolarSystemSimulator.running
    paused,       \* SolarSystemSimulator.paused
    show_orbits,  \* SolarSystemSimulator.show_orbits
    frame_count,  \* SolarSystemSimulator.frame_count
    exit_code,    \* exit status of the process, -1 while it runs
    camera,       \* the Camera object, NoCamera before it is constructed
    planets,      \* SolarSystemSimulator.planets: a sequence of Planet objects
    hist,         \* per planet: the angles it was constructed with, and its update() calls
    textures,     \* OpenGLRenderer.textures: texture name -> OpenGL id
    drawn,        \* the draw commands issued for the frame being rendered
    error         \* what main() reported before exiting: "none", "display", "renderer", "textures"

vars == <<pc, running, paused, show_orbits, frame_count, exit_code, camera,
          planets, hist, textures, drawn, error>>

simVars == <<pc, running, paused, show_orbits, frame_count, exit_code, textures, drawn, error>>

----------------------------------------------------------------------------
(* Fixed-point arithmetic *)

Abs(n) == IF n < 0 THEN -n ELSE n

\* a * b for two fixed-point numbers
Mul(a, b) == (a * b) \div 1000

\* the least k with k * unit >= n, for n >= 0
CeilDiv(n, unit) == (n + unit - 1) \div unit

----------------------------------------------------------------------------
(* planet.py *)

FullTurn == 360000

\* main.py PLANETS_DATA: (name, radius, distance, orbit_speed, rotation_speed)
PLANETS_DATA ==
    << <<"Mercury",  380,  8000, 4000,  3000>>,
       <<"Venus",    950, 12000, 1500, -1000>>,
       <<"Earth",   1000, 16000, 1000,  2000>>,
       <<"Mars",     530, 21000,  800,  1900>>,
       <<"Jupiter", 2500, 30000,  300,  2400>>,
       <<"Saturn",  2000, 40000,  150,  2300>> >>

\* the default of Planet.__init__'s color parameter
DefaultColor == <<800, 800, 800>>

\* Planet.__init__: the two angles are np.random.uniform(0, 360), given here
\* as orbit0 and rotation0.
NewPlanet(name, radius, distance, orbit_speed, rotation_speed, texture_id, color, orbit0, rotation0) ==
    [name |-> name, radius |-> radius, distance |-> distance,
     orbit_speed |-> orbit_speed, rotation_speed |-> rotation_speed,
     texture_id |-> texture_id, color |-> color,
     orbit_angle |-> orbit0, rotation_angle |-> rotation0]

\* The wrap of Planet.update: one subtraction, and only at the upper end.
WrapAngleAbove(angle) == IF angle > FullTurn THEN angle - FullTurn ELSE angle

WrapAngle(angle) == IF angle >= FullTurn THEN angle - FullTurn ELSE angle

\* Planet.update
Update(p, delta_time) ==
    [p EXCEPT !.orbit_angle = WrapAngle(p.orbit_angle + Mul(p.orbit_speed, delta_time)),
              !.rotation_angle = WrapAngle(p.rotation_angle + Mul(p.rotation_speed, delta_time))]

\* the branch of Planet.draw: a texture is bound when texture_id >= 0, the
\* flat colour is used otherwise
DrawMode(p) == IF p.texture_id >= 0 THEN "texture" ELSE "color"

\* the record kept beside a planet: what np.random.uniform returned in
\* __init__, and how many times update() ran
Born(p) == [orbit_angle |-> p.orbit_angle, rotation_angle |-> p.rotation_angle, ticks |-> 0]

----------------------------------------------------------------------------
(* A Planet object on its own: any constructor arguments, then update(1.0) *)

MaxTicks == 91

\* arguments tried for the constructor
Radii == {-1000, 0, 380}
Distances == {0, 8000}
OrbitSpeeds == {4000, 1500, -500}
RotationSpeeds == {3000, -1000}
StartAngles == {0, 359500}

NoCamera == [none |-> TRUE]

\* the process before main() has constructed anything
Init ==
    /\ pc = "main" /\ running = FALSE /\ paused = FALSE /\ show_orbits = FALSE
    /\ frame_count = 0 /\ exit_code = -1 /\ camera = NoCamera
    /\ planets = <<>> /\ hist = <<>> /\ textures = <<>> /\ drawn = <<>>
    /\ error = "none"

ConstructPlanet ==
    /\ planets = <<>>
    /\ \E radius \in Radii, distance \in Distances, orbit_speed \in OrbitSpeeds,
          rotation_speed \in RotationSpeeds, texture_id \in {-1, 1},
          orbit0 \in StartAngles, rotation0 \in StartAngles :
          LET p == NewPlanet("body", radius, distance, orbit_speed, rotation_speed,
                             texture_id, DefaultColor, orbit0, rotation0)
          IN /\ planets' = <<p>>
             /\ hist' = <<Born(p)>>
    /\ UNCHANGED <<simVars, camera>>

UpdatePlanet ==
    /\ planets # <<>>
    /\ hist[1].ticks < MaxTicks
    /\ planets' = <<Update(planets[1], 1000)>>
    /\ hist' = <<[hist[1] EXCEPT !.ticks = @ + 1]>>
    /\ UNCHANGED <<simVars, camera>>

NextPlanet == ConstructPlanet \/ UpdatePlanet

SpecPlanet == Init /\ [][NextPlanet]_vars

----------------------------------------------------------------------------
(* camera.py: vectors *)

\* A vector: three coordinates and w, a set of [t |-> unit term, n |-> factor]
\* with one entry per term and no factor 0.
ZeroVec == [x |-> 0, y |-> 0, z |-> 0, w |-> {}]

Coef(w, t) == IF \E e \in w : e.t = t THEN (CHOOSE e \in w : e.t = t).n ELSE 0

WAdd(w1, w2) ==
    LET ts == {e.t : e \in w1 \cup w2}
    IN {[t |-> t, n |-> Coef(w1, t) + Coef(w2, t)] :
            t \in {u \in ts : Coef(w1, u) + Coef(w2, u) # 0}}

VecAdd(a, b) == [x |-> a.x + b.x, y |-> a.y + b.y, z |-> a.z + b.z, w |-> WAdd(a.w, b.w)]

VecScale(a, k) ==
    [x |-> Mul(a.x, k), y |-> Mul(a.y, k), z |-> Mul(a.z, k),
     w |-> {[t |-> e.t, n |-> Mul(e.n, k)] : e \in {f \in a.w : Mul(f.n, k) # 0}}]

VecSub(a, b) == VecAdd(a, VecScale(b, -1000))

\* A position: the vector o + d * dir(th, ph).
PosAdd(p, v) == [p EXCEPT !.o = VecAdd(@, v)]

PosSub(p, v) == [p EXCEPT !.o = VecSub(@, v)]

\* target - position
FromPos(target, p) == [o |-> VecSub(target, p.o), d |-> -p.d, th |-> p.th, ph |-> p.ph]

\* v / np.linalg.norm(v), as a unit term: when v is d * dir(th, ph) alone the
\* length d is replaced by its sign, otherwise v itself names the direction.
Normalized(v) ==
    IF v.o = ZeroVec /\ v.d # 0
    THEN [v EXCEPT !.d = IF v.d > 0 THEN 1000 ELSE -1000]
    ELSE v

UnitVec(term) == [x |-> 0, y |-> 0, z |-> 0, w |-> {[t |-> term, n |-> 1000]}]

\* direction / np.linalg.norm(direction)
Direction(v) == UnitVec([k |-> "unit", v |-> Normalized(v), u |-> ZeroVec])

\* np.cross(direction, up) / its norm
Right(v, up) == UnitVec([k |-> "cross", v |-> Normalized(v), u |-> up])

\* atan2 of the x and z coordinates of d * dir(th, ph), d > 0, -90 < ph < 90,
\* in degrees: th brought into (-180, 180]
WrapHalfTurn(th) ==
    LET m == (th + 180000) % FullTurn
    IN IF m = 0 THEN 180000 ELSE m - 180000

\* asin of the y coordinate of dir(th, ph), in degrees: ph folded into [-90, 90]
FoldQuarterTurn(ph) ==
    LET m == WrapHalfTurn(ph)
    IN IF m > 90000 THEN 180000 - m ELSE IF m < -90000 THEN -180000 - m ELSE m

\* np.linalg.norm(diff), atan2(diff[0], diff[2]), asin(diff[1] / distance) of
\* diff = o + d * dir(th, ph).  The code takes them only of the default
\* position minus the default target, where o is the zero vector; of any
\* other vector the term gives no number and -1 stands for the length.
Norm(diff) == IF diff.o = ZeroVec THEN Abs(diff.d) ELSE -1

Atan2Deg(diff) == IF diff.o = ZeroVec THEN WrapHalfTurn(diff.th) ELSE 0

AsinDeg(diff) == IF diff.o = ZeroVec THEN FoldQuarterTurn(diff.ph) ELSE 0

----------------------------------------------------------------------------
(* camera.py: Camera *)

MoveSpeed == 500
RotationSpeed == 2000
ZoomSpeed == 1000
MinDistance == 10000
MaxDistance == 500000
PitchLimit == 89000

\* np.array([30.0, 20.0, 30.0]) in spherical form: its length sqrt(2200), its
\* atan2(30, 30) and its asin(20 / sqrt(2200)) in degrees
DefaultDistance == 46904
DefaultTheta == 45000
DefaultPhi == 25239

DefaultPosition == [o |-> ZeroVec, d |-> DefaultDistance, th |-> DefaultTheta, ph |-> DefaultPhi]

UpVec == [x |-> 0, y |-> 1000, z |-> 0, w |-> {}]

\* Camera._recalculate_spherical
RecalculateSpherical(c) ==
    LET diff == PosSub(c.position, c.target)
    IN [c EXCEPT !.distance = Norm(diff), !.theta = Atan2Deg(diff), !.phi = AsinDeg(diff)]

\* Camera.__init__
NewCamera ==
    RecalculateSpherical([position |-> DefaultPosition, target |-> ZeroVec, up |-> UpVec,
                          distance |-> 0, theta |-> 0, phi |-> 0])

\* Camera._update_position_from_spherical
UpdatePositionFromSpherical(c) ==
    [c EXCEPT !.position = [o |-> c.target, d |-> c.distance, th |-> c.theta, ph |-> c.phi]]

\* Camera.rotate_horizontal
RotateHorizontalOneWay(c, delta) ==
    UpdatePositionFromSpherical([c EXCEPT !.theta = @ + Mul(Abs(delta), RotationSpeed)])

RotateHorizontal(c, delta) ==
    UpdatePositionFromSpherical([c EXCEPT !.theta = @ + Mul(delta, RotationSpeed)])

\* Camera.rotate_vertical
RotateVerticalClamped(c, delta) ==
    LET new_phi == c.phi + Mul(delta, RotationSpeed)
    IN UpdatePositionFromSpherical(
           [c EXCEPT !.phi = IF new_phi >= PitchLimit THEN PitchLimit
                             ELSE IF new_phi <= -PitchLimit THEN -PitchLimit
                             ELSE new_phi])

RotateVerticalInclusive(c, delta) ==
    LET new_phi == c.phi + Mul(delta, RotationSpeed)
    IN UpdatePositionFromSpherical(
           [c EXCEPT !.phi = IF -PitchLimit <= new_phi /\ new_phi <= PitchLimit
                             THEN new_phi ELSE @])

RotateVertical(c, delta) ==
    LET new_phi == c.phi + Mul(delta, RotationSpeed)
    IN UpdatePositionFromSpherical(
           [c EXCEPT !.phi = IF -PitchLimit < new_phi /\ new_phi < PitchLimit
                             THEN new_phi ELSE @])

\* Camera.move_forward, move_backward
MoveForward(c) ==
    LET step == VecScale(Direction(FromPos(c.target, c.position)), MoveSpeed)
    IN [c EXCEPT !.position = PosAdd(@, step), !.target = VecAdd(@, step)]

MoveBackward(c) ==
    LET step == VecScale(Direction(FromPos(c.target, c.position)), MoveSpeed)
    IN [c EXCEPT !.position = PosSub(@, step), !.target = VecSub(@, step)]

\* Camera.move_left, move_right
MoveLeft(c) ==
    LET step == VecScale(Right(FromPos(c.target, c.position), c.up), MoveSpeed)
    IN [c EXCEPT !.position = PosSub(@, step), !.target = VecSub(@, step)]

MoveRight(c) ==
    LET step == VecScale(Right(FromPos(c.target, c.position), c.up), MoveSpeed)
    IN [c EXCEPT !.position = PosAdd(@, step), !.target = VecAdd(@, step)]

\* Camera.move_up, move_down
MoveUpEyeOnly(c) == [c EXCEPT !.position = PosAdd(@, VecScale(c.up, MoveSpeed))]

MoveUp(c) ==
    LET step == VecScale(c.up, MoveSpeed)
    IN [c EXCEPT !.position = PosAdd(@, step), !.target = VecAdd(@, step)]

MoveDown(c) ==
    LET step == VecScale(c.up, MoveSpeed)
    IN [c EXCEPT !.position = PosSub(@, step), !.target = VecSub(@, step)]

\* Camera.zoom_in, zoom_out
ZoomInUnclamped(c) == UpdatePositionFromSpherical([c EXCEPT !.distance = @ - ZoomSpeed])

ZoomIn(c) ==
    LET d == c.distance - ZoomSpeed
    IN UpdatePositionFromSpherical(
           [c EXCEPT !.distance = IF d < MinDistance THEN MinDistance ELSE d])

ZoomOutStaleEye(c) ==
    LET d == c.distance + ZoomSpeed
    IN [c EXCEPT !.distance = IF d > MaxDistance THEN MaxDistance ELSE d]

ZoomOut(c) ==
    LET d == c.distance + ZoomSpeed
    IN UpdatePositionFromSpherical(
           [c EXCEPT !.distance = IF d > MaxDistance THEN MaxDistance ELSE d])

\* Camera.reset_view
ResetViewKeepsTarget(c) == RecalculateSpherical([c EXCEPT !.position = DefaultPosition])

ResetView(c) ==
    RecalculateSpherical([c EXCEPT !.position = DefaultPosition, !.target = ZeroVec])

----------------------------------------------------------------------------
(* A Camera object on its own: any sequence of its methods *)

\* How far a camera is from the default one, counted in calls: key presses
\* of yaw and of pitch, zoom steps, and move steps of the target (a move
\* along a view-dependent direction counts the yaw and pitch it was made
\* at as well).
YawSteps(th) == CeilDiv(Abs(th - DefaultTheta), RotationSpeed)

PitchSteps(ph) == CeilDiv(Abs(ph - DefaultPhi), RotationSpeed)

ZoomSteps(d) == CeilDiv(Abs(d - DefaultDistance), ZoomSpeed)

TermSteps(e) ==
    CeilDiv(Abs(e.n), MoveSpeed)
        + (IF e.t.v.o = ZeroVec THEN YawSteps(e.t.v.th) + PitchSteps(e.t.v.ph) ELSE 0)

RECURSIVE SumTermSteps(_)
SumTermSteps(w) ==
    IF w = {} THEN 0
    ELSE LET e == CHOOSE f \in w : TRUE IN TermSteps(e) + SumTermSteps(w \ {e})

MoveSteps(v) ==
    CeilDiv(Abs(v.x), MoveSpeed) + CeilDiv(Abs(v.y), MoveSpeed)
        + CeilDiv(Abs(v.z), MoveSpeed) + SumTermSteps(v.w)

\* arguments tried for rotate_horizontal and rotate_vertical, in degrees
YawDeltas == {-10000, -1000, 1000, 10000}
PitchDeltas == {-50000, -1000, 1000, 50000}

\* the bounds of the three explorations: one quantity ranges freely (yaw up
\* to MaxYaw key presses), the others stay within MaxSide calls of the default
MaxSide == 1
MaxYaw == 10

YawWindow ==
    /\ YawSteps(camera.theta) <= MaxYaw
    /\ PitchSteps(camera.phi) + ZoomSteps(camera.distance) + MoveSteps(camera.target) <= MaxSide

PitchWindow ==
    YawSteps(camera.theta) + ZoomSteps(camera.distance) + MoveSteps(camera.target) <= MaxSide

ZoomWindow ==
    YawSteps(camera.theta) + PitchSteps(camera.phi) + MoveSteps(camera.target) <= MaxSide

InitCamera ==
    /\ pc = "main" /\ running = FALSE /\ paused = FALSE /\ show_orbits = FALSE
    /\ frame_count = 0 /\ exit_code = -1 /\ camera = NewCamera
    /\ planets = <<>> /\ hist = <<>> /\ textures = <<>> /\ drawn = <<>>
    /\ error = "none"

CallRotateHorizontal ==
    /\ \E delta \in YawDeltas : camera' = RotateHorizontal(camera, delta)
    /\ UNCHANGED <<simVars, planets, hist>>

CallRotateVertical ==
    /\ \E delta \in PitchDeltas : camera' = RotateVertical(camera, delta)
    /\ UNCHANGED <<simVars, planets, hist>>

CallMoveForward ==
    /\ camera' = MoveForward(camera)
    /\ UNCHANGED <<simVars, planets, hist>>

CallMoveBackward ==
    /\ camera' = MoveBackward(camera)
    /\ UNCHANGED <<simVars, planets, hist>>

CallMoveLeft ==
    /\ camera' = MoveLeft(camera)
    /\ UNCHANGED <<simVars, planets, hist>>

CallMoveRight ==
    /\ camera' = MoveRight(camera)
    /\ UNCHANGED <<simVars, planets, hist>>

CallMoveUp ==
    /\ camera' = MoveUp(camera)
    /\ UNCHANGED <<simVars, planets, hist>>

CallMoveDown ==
    /\ camera' = MoveDown(camera)
    /\ UNCHANGED <<simVars, planets, hist>>

CallZoomIn ==
    /\ camera' = ZoomIn(camera)
    /\ UNCHANGED <<simVars, planets, hist>>

CallZoomOut ==
    /\ camera' = ZoomOut(camera)
    /\ UNCHANGED <<simVars, planets, hist>>

CallResetView ==
    /\ camera' = ResetView(camera)
    /\ UNCHANGED <<simVars, planets, hist>>

NextYaw ==
    \/ CallRotateHorizontal /\ YawWindow'
    \/ CallRotateVertical /\ YawWindow'
    \/ CallMoveForward /\ YawWindow'
    \/ CallMoveBackward /\ YawWindow'
    \/ CallMoveLeft /\ YawWindow'
    \/ CallMoveRight /\ YawWindow'
    \/ CallMoveUp /\ YawWindow'
    \/ CallMoveDown /\ YawWindow'
    \/ CallZoomIn /\ YawWindow'
    \/ CallZoomOut /\ YawWindow'
    \/ CallResetView /\ YawWindow'

NextPitch ==
    \/ CallRotateHorizontal /\ PitchWindow'
    \/ CallRotateVertical /\ PitchWindow'
    \/ CallMoveForward /\ PitchWindow'
    \/ CallMoveBackward /\ PitchWindow'
    \/ CallMoveLeft /\ PitchWindow'
    \/ CallMoveRight /\ PitchWindow'
    \/ CallMoveUp /\ PitchWindow'
    \/ CallMoveDown /\ PitchWindow'
    \/ CallZoomIn /\ PitchWindow'
    \/ CallZoomOut /\ PitchWindow'
    \/ CallResetView /\ PitchWindow'

NextZoom ==
    \/ CallRotateHorizontal /\ ZoomWindow'
    \/ CallRotateVertical /\ ZoomWindow'
    \/ CallMoveForward /\ ZoomWindow'
    \/ CallMoveBackward /\ ZoomWindow'
    \/ CallMoveLeft /\ ZoomWindow'
    \/ CallMoveRight /\ ZoomWindow'
    \/ CallMoveUp /\ ZoomWindow'
    \/ CallMoveDown /\ ZoomWindow'
    \/ CallZoomIn /\ ZoomWindow'
    \/ CallZoomOut /\ ZoomWindow'
    \/ CallResetView /\ ZoomWindow'

SpecYaw == InitCamera /\ [][NextYaw]_vars

SpecPitch == InitCamera /\ [][NextPitch]_vars

SpecZoom == InitCamera /\ [][NextZoom]_vars

----------------------------------------------------------------------------
(* renderer.py: OpenGLRenderer.load_texture *)

\* load_texture(texture_name, image_path) on the table tex: the cached id when
\* the name is known; otherwise the id glGenTextures hands out (the next
\* unused number) when the image opens and uploads (ok), and -1, with the
\* table untouched, when the try block raises.
LoadTexture(tex, texture_name, ok) ==
    IF texture_name \in DOMAIN tex THEN [textures |-> tex, id |-> tex[texture_name]]
    ELSE IF ok
         THEN [textures |-> tex @@ (texture_name :> Cardinality(DOMAIN tex) + 1),
               id |-> Cardinality(DOMAIN tex) + 1]
         ELSE [textures |-> tex, id |-> -1]

----------------------------------------------------------------------------
(* main.py: SolarSystemSimulator *)

texture_names == <<"mercury", "venus", "earth", "mars", "jupiter", "saturn">>

\* SolarSystemSimulator._create_planets, from planet i on: st holds the
\* texture table and the planets made so far; failed is the set of planets
\* whose image cannot be loaded, orbit0 and rotation0 what
\* np.random.uniform returns.
RECURSIVE CreatePlanets(_, _, _, _, _)
CreatePlanets(i, st, failed, orbit0, rotation0) ==
    IF i > Len(PLANETS_DATA) THEN st
    ELSE LET row == PLANETS_DATA[i]
             loaded == LoadTexture(st.textures, texture_names[i], i \notin failed)
             planet == NewPlanet(row[1], row[2], row[3], row[4], row[5], loaded.id,
                                 DefaultColor, orbit0, rotation0)
         IN CreatePlanets(i + 1,
                          [textures |-> loaded.textures, planets |-> Append(st.planets, planet)],
                          failed, orbit0, rotation0)

\* SolarSystemSimulator._update_simulation
UpdateSimulationAlways(ps, is_paused) == [i \in DOMAIN ps |-> Update(ps[i], 1000)]

UpdateSimulation(ps, is_paused) ==
    IF ~is_paused THEN [i \in DOMAIN ps |-> Update(ps[i], 1000)] ELSE ps

\* SolarSystemSimulator._render_scene: the commands in the order issued
RenderSceneOrbitsAlways(c, ps, orbits) ==
    << [cmd |-> "clear_screen"],
       [cmd |-> "setup_modelview"],
       [cmd |-> "apply_view_matrix", position |-> c.position, target |-> c.target, up |-> c.up],
       [cmd |-> "render_starfield"],
       [cmd |-> "setup_material"],
       [cmd |-> "render_sun"] >>
    \o [i \in DOMAIN ps |->
            [cmd |-> "draw", planet |-> i, mode |-> DrawMode(ps[i]),
             texture_id |-> ps[i].texture_id, color |-> ps[i].color,
             orbit_angle |-> ps[i].orbit_angle, rotation_angle |-> ps[i].rotation_angle]]
    \o [i \in DOMAIN ps |-> [cmd |-> "draw_orbit_line", planet |-> i,
                             distance |-> ps[i].distance]]

RenderScene(c, ps, orbits) ==
    << [cmd |-> "clear_screen"],
       [cmd |-> "setup_modelview"],
       [cmd |-> "apply_view_matrix", position |-> c.position, target |-> c.target, up |-> c.up],
       [cmd |-> "render_starfield"],
       [cmd |-> "setup_material"],
       [cmd |-> "render_sun"] >>
    \o [i \in DOMAIN ps |->
            [cmd |-> "draw", planet |-> i, mode |-> DrawMode(ps[i]),
             texture_id |-> ps[i].texture_id, color |-> ps[i].color,
             orbit_angle |-> ps[i].orbit_angle, rotation_angle |-> ps[i].rotation_angle]]
    \o (IF orbits
        THEN [i \in DOMAIN ps |-> [cmd |-> "draw_orbit_line", planet |-> i,
                                   distance |-> ps[i].distance]]
        ELSE << >>)

\* the held-key part of _handle_input, in the order of the if statements
ApplyHeldKeys(c, keys) ==
    LET c1 == IF "w" \in keys THEN RotateHorizontal(c, 1000) ELSE c
        c2 == IF "s" \in keys THEN RotateHorizontal(c1, -1000) ELSE c1
        c3 == IF "a" \in keys THEN RotateVertical(c2, 1000) ELSE c2
        c4 == IF "d" \in keys THEN RotateVertical(c3, -1000) ELSE c3
        c5 == IF "q" \in keys THEN MoveUp(c4) ELSE c4
        c6 == IF "e" \in keys THEN MoveDown(c5) ELSE c5
        c7 == IF "equals" \in keys \/ "plus" \in keys THEN ZoomIn(c6) ELSE c6
        c8 == IF "minus" \in keys THEN ZoomOut(c7) ELSE c7
    IN c8

\* the free-look part of _handle_input: mouse.right is mouse_buttons[2],
\* mouse.rel the pixels of pygame.mouse.get_rel(); 0.05 degree per pixel
ApplyMouse(c, mouse) ==
    IF mouse.right
    THEN RotateVertical(RotateHorizontal(c, mouse.rel[1] * 50), -mouse.rel[2] * 50)
    ELSE c

\* the body of the event loop of _handle_input for one event, on
\* st = [running, paused, show_orbits, camera]
HandleEventPauseHidesOrbits(st, event) ==
    IF event.type = "QUIT" THEN [st EXCEPT !.running = FALSE]
    ELSE IF event.type = "KEYDOWN"
    THEN IF event.key = "ESCAPE" THEN [st EXCEPT !.running = FALSE]
         ELSE IF event.key = "r" THEN [st EXCEPT !.camera = ResetView(@)]
         ELSE IF event.key = "p" THEN [st EXCEPT !.paused = ~@, !.show_orbits = FALSE]
         ELSE IF event.key = "o" THEN [st EXCEPT !.show_orbits = ~@]
         ELSE st
    ELSE IF event.type = "MOUSEBUTTONDOWN"
    THEN IF event.button = 4 THEN [st EXCEPT !.camera = ZoomIn(@)]
         ELSE IF event.button = 5 THEN [st EXCEPT !.camera = ZoomOut(@)]
         ELSE st
    ELSE st

HandleEvent(st, event) ==
    IF event.type = "QUIT" THEN [st EXCEPT !.running = FALSE]
    ELSE IF event.type = "KEYDOWN"
    THEN IF event.key = "ESCAPE" THEN [st EXCEPT !.running = FALSE]
         ELSE IF event.key = "r" THEN [st EXCEPT !.camera = ResetView(@)]
         ELSE IF event.key = "p" THEN [st EXCEPT !.paused = ~@]
         ELSE IF event.key = "o" THEN [st EXCEPT !.show_orbits = ~@]
         ELSE st
    ELSE IF event.type = "MOUSEBUTTONDOWN"
    THEN IF event.button = 4 THEN [st EXCEPT !.camera = ZoomIn(@)]
         ELSE IF event.button = 5 THEN [st EXCEPT !.camera = ZoomOut(@)]
         ELSE st
    ELSE st

RECURSIVE HandleEvents(_, _)
HandleEvents(st, events) ==
    IF events = << >> THEN st
    ELSE HandleEvents(HandleEvent(st, Head(events)), Tail(events))

\* _handle_input as a whole
HandleInputEventsFirst(st, keys, mouse, events) ==
    [HandleEvents(st, events) EXCEPT !.camera = ApplyMouse(ApplyHeldKeys(@, keys), mouse)]

HandleInputResult(st, keys, mouse, events) ==
    HandleEvents([st EXCEPT !.camera = ApplyMouse(ApplyHeldKeys(@, keys), mouse)], events)

----------------------------------------------------------------------------
(* main.py: main() and the frame loop *)

MaxFrames == 3

\* what the window system delivers in one frame
Quit == [type |-> "QUIT", key |-> "", button |-> 0]
KeyDown(k) == [type |-> "KEYDOWN", key |-> k, button |-> 0]
MouseButtonDown(b) == [type |-> "MOUSEBUTTONDOWN", key |-> "", button |-> b]

HeldKeySets ==
    {{}, {"w"}, {"s"}, {"a"}, {"d"}, {"q"}, {"e"}, {"equals"}, {"plus"}, {"minus"},
     {"w", "a", "minus"}}

MouseStates ==
    {[right |-> FALSE, rel |-> <<20, -20>>], [right |-> TRUE, rel |-> <<20, 0>>],
     [right |-> TRUE, rel |-> <<0, 20>>]}

EventQueues ==
    {<< >>, <<Quit>>, <<KeyDown("ESCAPE")>>, <<KeyDown("r")>>, <<KeyDown("p")>>,
     <<KeyDown("o")>>, <<KeyDown("x")>>, <<MouseButtonDown(4)>>, <<MouseButtonDown(5)>>,
     <<MouseButtonDown(1)>>, <<KeyDown("p"), KeyDown("p")>>,
     <<KeyDown("r"), MouseButtonDown(5)>>, <<KeyDown("o"), Quit>>,
     <<MouseButtonDown(4), KeyDown("r")>>}

\* the planets whose texture file cannot be loaded, and the start angles
FailedLoads == {{}, {2}, {1, 6}}
StartPairs == {<<0, 0>>, <<359500, 500>>}

\* the camera stays within MaxSide calls of the default one
FrameWindow ==
    YawSteps(camera.theta) + PitchSteps(camera.phi) + ZoomSteps(camera.distance)
        + MoveSteps(camera.target) <= MaxSide

\* main(): the except branch for the exception e: print(f"Error: {e}"),
\* print the traceback, sys.exit(1)
MainExceptExitsZero(e) == [error |-> e, exit_code |-> 0]

MainExcept(e) == [error |-> e, exit_code |-> 1]

\* main(): SolarSystemSimulator() raises before any attribute is set
\* (pygame.init, set_mode); the except branch reports and exits
ConstructDisplayFails ==
    /\ pc = "main"
    /\ \E caught \in {MainExcept("display")} :
          error' = caught.error /\ exit_code' = caught.exit_code
    /\ pc' = "exited"
    /\ UNCHANGED <<running, paused, show_orbits, frame_count, camera, planets, hist,
                   textures, drawn>>

\* main(): OpenGLRenderer() raises inside __init__, after the flags were
\* set and before the camera is made; the except branch reports and exits
ConstructRendererFails ==
    /\ pc = "main"
    /\ running' = TRUE /\ paused' = FALSE /\ show_orbits' = TRUE
    /\ \E caught \in {MainExcept("renderer")} :
          error' = caught.error /\ exit_code' = caught.exit_code
    /\ pc' = "exited"
    /\ UNCHANGED <<frame_count, camera, planets, hist, textures, drawn>>

\* main(): generate_all_textures() raises inside __init__, after the flags,
\* the renderer and the camera were made; the except branch reports and exits
ConstructTexturesFail ==
    /\ pc = "main"
    /\ running' = TRUE /\ paused' = FALSE /\ show_orbits' = TRUE
    /\ camera' = NewCamera
    /\ \E caught \in {MainExcept("textures")} :
          error' = caught.error /\ exit_code' = caught.exit_code
    /\ pc' = "exited"
    /\ UNCHANGED <<frame_count, planets, hist, textures, drawn>>

\* main(): SolarSystemSimulator() returns, run() reaches the loop test
Construct ==
    /\ pc = "main"
    /\ \E failed \in FailedLoads, start \in StartPairs :
          \E made \in {CreatePlanets(1, [textures |-> << >>, planets |-> << >>],
                                     failed, start[1], start[2])} :
             /\ planets' = made.planets
             /\ textures' = made.textures
             /\ hist' = [i \in DOMAIN made.planets |-> Born(made.planets[i])]
    /\ running' = TRUE /\ paused' = FALSE /\ show_orbits' = TRUE
    /\ camera' = NewCamera
    /\ frame_count' = 0
    /\ pc' = "input"
    /\ UNCHANGED <<exit_code, drawn, error>>

\* run(): the test of `while self.running`, made before every frame: where
\* the loop goes after a frame
WhileRunningForever(is_running) == "input"

WhileRunning(is_running) == IF is_running THEN "input" ELSE "cleanup"

\* run(): self._handle_input(); at most MaxFrames frames are started
HandleInput ==
    /\ pc = "input"
    /\ frame_count < MaxFrames
    /\ \E keys \in HeldKeySets, mouse \in MouseStates, events \in EventQueues :
          \E st \in {HandleInputResult([running |-> running, paused |-> paused,
                                        show_orbits |-> show_orbits, camera |-> camera],
                                       keys, mouse, events)} :
             /\ running' = st.running
             /\ paused' = st.paused
             /\ show_orbits' = st.show_orbits
             /\ camera' = st.camera
    /\ FrameWindow'
    /\ pc' = "update"
    /\ UNCHANGED <<frame_count, exit_code, planets, hist, textures, drawn, error>>

\* run(): self._update_simulation()
StepUpdateSimulation ==
    /\ pc = "update"
    /\ planets' = UpdateSimulation(planets, paused)
    /\ hist' = IF ~paused THEN [i \in DOMAIN hist |-> [hist[i] EXCEPT !.ticks = @ + 1]]
               ELSE hist
    /\ pc' = "render"
    /\ UNCHANGED <<running, paused, show_orbits, frame_count, exit_code, camera,
                   textures, drawn, error>>

\* run(): self._render_scene()
StepRenderScene ==
    /\ pc = "render"
    /\ drawn' = RenderScene(camera, planets, show_orbits)
    /\ pc' = "flip"
    /\ UNCHANGED <<running, paused, show_orbits, frame_count, exit_code, camera,
                   planets, hist, textures, error>>

\* run(): pygame.display.flip(), clock.tick, _display_stats(), then the
\* loop test: the frame is shown, the next one starts while running
Flip ==
    /\ pc = "flip"
    /\ frame_count' = frame_count + 1
    /\ drawn' = << >>
    /\ pc' = WhileRunning(running)
    /\ UNCHANGED <<running, paused, show_orbits, exit_code, camera, planets, hist,
                   textures, error>>

\* run(): self._cleanup(), and main() returns
Cleanup ==
    /\ pc = "cleanup"
    /\ pc' = "exited" /\ exit_code' = 0
    /\ UNCHANGED <<running, paused, show_orbits, frame_count, camera, planets, hist,
                   textures, drawn, error>>

Next ==
    \/ ConstructDisplayFails
    \/ ConstructRendererFails
    \/ ConstructTexturesFail
    \/ Construct
    \/ HandleInput
    \/ StepUpdateSimulation
    \/ StepRenderScene
    \/ Flip
    \/ Cleanup

Spec == Init /\ [][Next]_vars

\* The run from start to exit with the camera left as constructed: the input
\* steps vary the events, the flags and the planets only.
QuitWindow == camera = NewCamera

NextQuit ==
    \/ ConstructDisplayFails
    \/ ConstructRendererFails
    \/ ConstructTexturesFail
    \/ Construct
    \/ HandleInput /\ QuitWindow'
    \/ StepUpdateSimulation
    \/ StepRenderScene
    \/ Flip
    \/ Cleanup

\* The program is one thread and every call of the loop body returns
\* (pygame.event.get does not block, clock.tick waits one frame interval):
\* a step that can be taken is taken.
SpecFair == Init /\ [][NextQuit]_vars /\ WF_vars(NextQuit)

----------------------------------------------------------------------------
(* The claims *)

\* C1: for every body, whatever the signs of its orbit speed and spin speed,
\* orbit_angle and rotation_angle are in [0, 360) after any number of
\* update calls.
C1_AnglesInRange ==
    \A i \in DOMAIN planets :
        /\ 0 <= planets[i].orbit_angle /\ planets[i].orbit_angle < FullTurn
        /\ 0 <= planets[i].rotation_angle /\ planets[i].rotation_angle < FullTurn

\* C2: a failure of texture generation or of a texture load never ends the
\* program: initialization completes, the body whose texture is missing has
\* no texture handle and is drawn with its flat colour.
C2_AssetFailureNotFatal ==
    /\ error = "textures" => pc # "exited"
    /\ \A i \in DOMAIN planets :
           texture_names[i] \notin DOMAIN textures => planets[i].texture_id = -1
    /\ \A k \in DOMAIN drawn :
           (drawn[k].cmd = "draw" /\ planets[drawn[k].planet].texture_id < 0)
               => drawn[k].mode = "color"

\* C3: no body object with radius <= 0 or orbit distance <= 0 ever exists:
\* the constructor rejects such arguments.
C3_PositiveRadii ==
    \A i \in DOMAIN planets : planets[i].radius > 0 /\ planets[i].distance > 0

\* C4: the camera pitch phi is strictly inside (-89, 89) in every reachable
\* state, whatever rotate_vertical calls of any size and sign are made
\* between the other camera calls.
C4_PitchInsideLimits == -PitchLimit < camera.phi /\ camera.phi < PitchLimit

\* a pitch one key press below the limit, where a further rotation is dropped
C4_Witness ==
    /\ camera.phi + Mul(1000, RotationSpeed) >= PitchLimit
    /\ RotateVertical(camera, 1000).phi = camera.phi

\* C5: the camera distance is within [10, 500] in every reachable state, and
\* so never 0.
C5_DistanceInRange ==
    /\ MinDistance <= camera.distance /\ camera.distance <= MaxDistance
    /\ camera.distance # 0

\* the distance clamped at its upper limit, the eye recomputed from it
C5_Witness == camera.distance = MaxDistance /\ camera.position.d = MaxDistance

\* C6: after any sequence of camera calls the eye position is
\* target + distance * dir(theta, phi): the stored position and the stored
\* spherical state agree.
C6_EyeFromSpherical ==
    camera.position =
        [o |-> camera.target, d |-> camera.distance, th |-> camera.theta, ph |-> camera.phi]

\* a camera that was rotated and whose target was moved
C6_Witness == camera.target # ZeroVec /\ camera.theta # DefaultTheta

\* C7: reset_view is idempotent: from any reachable camera state, two resets
\* give the state one reset gives, which is the state after construction.
C7_ResetIdempotent ==
    /\ ResetView(ResetView(camera)) = ResetView(camera)
    /\ ResetView(camera) = NewCamera

\* a camera that differs from the default one in target, yaw and position
C7_Witness ==
    /\ camera.target.y # 0
    /\ YawSteps(camera.theta) = MaxYaw
    /\ ResetView(camera) # camera

\* C8: while paused, the simulate step of a frame leaves the orbit and
\* rotation angle of every body unchanged.
C8_PausedKeepsAngles ==
    [][(pc = "update" /\ paused) =>
          /\ DOMAIN planets' = DOMAIN planets
          /\ \A i \in DOMAIN planets :
                /\ planets'[i].orbit_angle = planets[i].orbit_angle
                /\ planets'[i].rotation_angle = planets[i].rotation_angle]_vars

\* the third frame in a row whose simulate step ran while paused
C8_Witness ==
    /\ pc = "render" /\ paused /\ frame_count = 2
    /\ planets # << >> /\ hist[1].ticks = 0

\* C9: a body with orbit speed 4.0 that starts at orbit angle 0 is at exactly
\* 0 after 90 update(1.0) calls; in general, with a positive speed that
\* divides 360 and start angle 0, the angle is 0 after 360 / speed updates
\* and is never 360.
C9_FullTurnIsZero ==
    \A i \in DOMAIN planets :
        (planets[i].orbit_speed > 0 /\ FullTurn % planets[i].orbit_speed = 0
            /\ hist[i].orbit_angle = 0)
        => /\ planets[i].orbit_angle # FullTurn
           /\ hist[i].ticks * planets[i].orbit_speed = FullTurn
                  => planets[i].orbit_angle = 0

\* the body of the scenario after its 90th update
C9_Witness ==
    /\ planets # << >>
    /\ planets[1].orbit_speed = 4000 /\ hist[1].orbit_angle = 0 /\ hist[1].ticks = 90
    /\ planets[1].orbit_angle = 0

\* C10: from the default camera state, rotate_horizontal(10) followed by
\* rotate_horizontal(-10) returns theta to its value and leaves phi, distance
\* and target unchanged.
C10_YawRoundTrip ==
    camera = NewCamera =>
        LET there == RotateHorizontal(camera, 10000)
            back == RotateHorizontal(there, -10000)
        IN /\ back.theta = camera.theta
           /\ back.phi = camera.phi
           /\ back.distance = camera.distance
           /\ back.target = camera.target

\* the camera after rotate_horizontal(10) from the default state, from which
\* rotate_horizontal(-10) leads back to it
C10_Witness ==
    /\ camera = RotateHorizontal(NewCamera, 10000)
    /\ camera.theta # NewCamera.theta
    /\ RotateHorizontal(camera, -10000) = NewCamera

\* C11: the process ends with exit code 0 after a normal quit (the loop was
\* left with running cleared and _cleanup ran), and with a non-zero exit code
\* and the triggering error reported when SolarSystemSimulator() raises:
\* in display creation, in the renderer set-up or in texture generation.
C11_ExitCodes ==
    /\ pc = "exited" <=> exit_code # -1
    /\ (pc = "exited" /\ error = "none") => (exit_code = 0 /\ ~running /\ frame_count > 0)
    /\ error # "none" =>
           /\ pc = "exited" /\ exit_code # 0
           /\ error \in {"display", "renderer", "textures"}
           /\ frame_count = 0 /\ planets = << >>
    /\ exit_code = 0 => error = "none"

\* texture generation raised after the camera was made: reported, exit code 1
C11_Witness ==
    /\ pc = "exited" /\ error = "textures" /\ exit_code = 1
    /\ camera = NewCamera /\ planets = << >>

\* C12: every frame performs its steps once each and in this order: the input
\* step; the simulate step, which calls update(1.0) on every planet if and
\* only if the simulation is not paused; the render step, which clears,
\* installs the camera view, draws the starfield, the sun, every planet in
\* order and then the orbit lines if and only if show_orbits; the present
\* step, which counts the frame.  Neither the planets nor the camera change
\* from the end of the simulate step to the end of the present step.
C12_FrameOrder ==
    [][/\ pc = "input" =>
            pc' = "update" /\ planets' = planets /\ frame_count' = frame_count
       /\ pc = "update" =>
            /\ pc' = "render" /\ camera' = camera /\ frame_count' = frame_count
            /\ planets' = IF ~paused
                          THEN [i \in DOMAIN planets |-> Update(planets[i], 1000)]
                          ELSE planets
       /\ pc = "render" =>
            /\ pc' = "flip" /\ camera' = camera /\ planets' = planets
            /\ frame_count' = frame_count
            /\ LET Listed(r) == r.cmd \notin {"setup_modelview", "setup_material"}
                   steps == SelectSeq(drawn', Listed)
                   n == Len(planets)
               IN /\ Len(steps) = 4 + n + (IF show_orbits THEN n ELSE 0)
                  /\ steps[1].cmd = "clear_screen"
                  /\ steps[2] = [cmd |-> "apply_view_matrix", position |-> camera.position,
                                 target |-> camera.target, up |-> camera.up]
                  /\ steps[3].cmd = "render_starfield"
                  /\ steps[4].cmd = "render_sun"
                  /\ \A i \in 1..n :
                        /\ steps[4 + i].cmd = "draw" /\ steps[4 + i].planet = i
                        /\ steps[4 + i].orbit_angle = planets[i].orbit_angle
                        /\ steps[4 + i].rotation_angle = planets[i].rotation_angle
                  /\ show_orbits =>
                        \A i \in 1..n :
                            /\ steps[4 + n + i].cmd = "draw_orbit_line"
                            /\ steps[4 + n + i].planet = i
       /\ pc = "flip" =>
            /\ pc' \in {"input", "cleanup"} /\ frame_count' = frame_count + 1
            /\ camera' = camera /\ planets' = planets]_vars

\* the second frame rendered: two updates were made, the orbit lines are off
C12_Witness ==
    /\ pc = "flip" /\ frame_count = 1 /\ ~paused /\ ~show_orbits
    /\ planets # << >> /\ hist[1].ticks = 2
    /\ Len(drawn) = 6 + Len(planets)

\* C13: a QUIT event or an ESCAPE key-down only clears running; the frame
\* that processed it still makes its simulate, render and present steps; no
\* frame is started while running is cleared; the loop then reaches _cleanup
\* and the process ends.
C13_CooperativeQuit ==
    /\ [](LET st == [running |-> running, paused |-> paused,
                     show_orbits |-> show_orbits, camera |-> camera]
          IN \A event \in {Quit, KeyDown("ESCAPE")} :
                HandleEvent(st, event) = [st EXCEPT !.running = FALSE])
    /\ [](pc = "input" => running)
    /\ [][/\ (pc = "input" /\ ~running') =>
               /\ pc' = "update" /\ planets' = planets /\ frame_count' = frame_count
               /\ exit_code' = exit_code
          /\ (pc = "update" /\ ~running) =>
               pc' = "render" /\ planets' = UpdateSimulation(planets, paused)
          /\ (pc = "render" /\ ~running) =>
               pc' = "flip" /\ drawn' = RenderScene(camera, planets, show_orbits)
          /\ (pc = "flip" /\ ~running) =>
               pc' = "cleanup" /\ frame_count' = frame_count + 1
          /\ pc = "cleanup" => (~running /\ pc' = "exited")
          /\ (pc \in {"update", "render", "flip", "cleanup"} /\ ~running) => ~running']_vars
    /\ (pc = "update" /\ ~running) ~> (pc = "exited" /\ exit_code = 0)

\* the loop left after the first frame, in which a quit was processed and
\* the planets were still updated
C13_Witness ==
    /\ pc = "cleanup" /\ ~running /\ frame_count = 1
    /\ planets # << >> /\ hist[1].ticks = 1

\* C14: the simulator is constructed not paused and with show_orbits on.
\* After construction paused and show_orbits change only in the input step,
\* which leaves the planets alone; of all events only the key-down of p
\* changes paused and only the key-down of o changes show_orbits, each
\* negates its flag and leaves the other flag, running and the camera as they
\* are; held keys and the mouse change neither flag, and a queue of events
\* changes a flag exactly when it holds an odd number of that flag's events.
C14_Toggles ==
    /\ [][(pc = "main" /\ pc' = "input") => (~paused' /\ show_orbits')]_vars
    /\ [][(pc # "main" /\ (paused' # paused \/ show_orbits' # show_orbits))
             => (pc = "input" /\ planets' = planets)]_vars
    /\ [](pc = "input" =>
            LET st == [running |-> running, paused |-> paused,
                       show_orbits |-> show_orbits, camera |-> camera]
                all == UNION {{q[i] : i \in DOMAIN q} : q \in EventQueues}
                IsP(e) == e = KeyDown("p")
                IsO(e) == e = KeyDown("o")
                Odd(q) == Len(q) % 2 = 1
            IN /\ \A event \in all :
                     LET r == HandleEvent(st, event)
                     IN /\ r.paused # st.paused <=> IsP(event)
                        /\ r.show_orbits # st.show_orbits <=> IsO(event)
                        /\ IsP(event) => r = [st EXCEPT !.paused = ~st.paused]
                        /\ IsO(event) => r = [st EXCEPT !.show_orbits = ~st.show_orbits]
               /\ \A keys \in HeldKeySets, mouse \in MouseStates :
                     LET r == HandleInputResult(st, keys, mouse, << >>)
                     IN r.paused = st.paused /\ r.show_orbits = st.show_orbits
               /\ \A events \in EventQueues :
                     LET r == HandleInputResult(st, {}, [right |-> FALSE, rel |-> <<0, 0>>],
                                                events)
                     IN /\ r.paused # st.paused <=> Odd(SelectSeq(events, IsP))
                        /\ r.show_orbits # st.show_orbits <=> Odd(SelectSeq(events, IsO)))

\* the first input step processed a key-down of p: paused, the orbit lines
\* still on, the camera as constructed
C14_Witness ==
    /\ pc = "update" /\ frame_count = 0
    /\ paused /\ show_orbits /\ running /\ camera = NewCamera

C16_ZoomStep ==
    LET zi == ZoomIn(camera)
        zo == ZoomOut(camera)
        Eye(c) == [o |-> c.target, d |-> c.distance, th |-> c.theta, ph |-> c.phi]
        Rest(c) == <<c.target, c.theta, c.phi, c.up>>
    IN /\ zi.distance = IF camera.distance - ZoomSpeed >= MinDistance
                        THEN camera.distance - ZoomSpeed ELSE MinDistance
       /\ zo.distance = IF camera.distance + ZoomSpeed <= MaxDistance
                        THEN camera.distance + ZoomSpeed ELSE MaxDistance
       /\ zi.position = Eye(zi) /\ zo.position = Eye(zo)
       /\ Rest(zi) = Rest(camera) /\ Rest(zo) = Rest(camera)
       /\ camera.distance = MinDistance => zi = camera
       /\ camera.distance = MaxDistance => zo = camera

\* the camera saturated at distance 10: a further zoom_in changes nothing, a
\* zoom_out moves the eye one zoom step away
C16_Witness ==
    /\ camera.distance = MinDistance /\ camera.position.d = MinDistance
    /\ ZoomIn(camera) = camera
    /\ ZoomOut(camera).position.d = MinDistance + ZoomSpeed

\* C17: in an input step the held keys and the mouse drag act on the camera
\* before the queued events, and the events act in queue order: when the
\* queue holds a key-down of r with no wheel event after it, the camera after
\* the step, which is the one the frame is rendered with, is the camera as
\* constructed, whatever keys are held and however the mouse is dragged; when
\* a wheel-down follows the reset, it is the constructed camera zoomed out
\* once.
C17_ResetAfterHeldKeys ==
    pc = "input" =>
        LET st == [running |-> running, paused |-> paused,
                   show_orbits |-> show_orbits, camera |-> camera]
            IsWheel(e) == e.type = "MOUSEBUTTONDOWN" /\ e.button \in {4, 5}
            ResetLast(q) ==
                \E i \in DOMAIN q :
                    /\ q[i] = KeyDown("r")
                    /\ \A j \in (i + 1)..Len(q) : ~IsWheel(q[j])
        IN \A keys \in HeldKeySets, mouse \in MouseStates, events \in EventQueues :
              /\ ResetLast(events) =>
                    LET r == HandleInputResult(st, keys, mouse, events)
                    IN /\ r.camera = NewCamera
                       /\ RenderScene(r.camera, planets, r.show_orbits)[3] =
                              [cmd |-> "apply_view_matrix", position |-> DefaultPosition,
                               target |-> ZeroVec, up |-> UpVec]
              /\ events = <<KeyDown("r"), MouseButtonDown(5)>> =>
                    HandleInputResult(st, keys, mouse, events).camera = ZoomOut(NewCamera)

\* an input step that starts from a moved camera, with keys held and the
\* mouse dragged, and a wheel-up before the reset in its queue
C17_Witness ==
    /\ pc = "input" /\ frame_count > 0 /\ camera # NewCamera
    /\ LET st == [running |-> running, paused |-> paused,
                  show_orbits |-> show_orbits, camera |-> camera]
           keys == {"w", "a", "minus"}
           mouse == [right |-> TRUE, rel |-> <<20, 0>>]
       IN /\ ApplyMouse(ApplyHeldKeys(camera, keys), mouse) \notin {camera, NewCamera}
          /\ HandleInputResult(st, keys, mouse,
                               <<MouseButtonDown(4), KeyDown("r")>>).camera = NewCamera

====
